---- MODULE Spec2Model ----
(***************************************************************************)
(* The three backtracking SAT searches of Satsify and the clause oracle    *)
(* they share, as a state machine over an explicit call stack.             *)
(*                                                                         *)
(*   SimpleDPLLSolver            src/example_sat_solver.py                 *)
(*   solve_3sat_backward         src/tests/sat_solver/backward_3sat_solver.py *)
(*   solve_3sat_goal_oriented    src/tests/sat_solver/goal_oriented_sat_solver.py *)
(*   is_clause_satisfied         src/tests/sat_solver/utils.py             *)
(*                                                                         *)
(* Conventions.  A Python dict {var: bool} is a function from a finite set *)
(* of variables to BOOLEAN.  A Python list is a sequence; Python's 0-based *)
(* clause index k is the 1-based index k+1 here.  Python's None, and the   *)
(* values that may be None, are tagged records (None, Some(v)).  Wall      *)
(* clock readings (time_taken_sec) and the report's text are left out.     *)
(***************************************************************************)
EXTENDS Integers, Sequences, FiniteSets, TLC

(***************************************************************************)
(* Bounds of the enumerated inputs.                                        *)
(***************************************************************************)
\* variables 1..MaxVar may occur in an enumerated formula
MaxVar == 2
\* an enumerated formula has at most MaxLits literal occurrences in total
MaxLits == 3

Abs(x) == IF x < 0 THEN -x ELSE x

None == [tag |-> "None"]
Some(v) == [tag |-> "Some", val |-> v]
Pending == [tag |-> "Pending"]

Lits == {l \in (-MaxVar)..MaxVar : l # 0}

\* every clause list of non-empty clauses with at most t literal occurrences
RECURSIVE FormulasUpTo(_)
FormulasUpTo(t) ==
  {<<>>} \cup
  UNION {{<<c>> \o f : c \in [1..n -> Lits], f \in FormulasUpTo(t - n)} : n \in 1..t}

\* the declared variable counts tried with an enumerated formula
NumVarsChoices == {0, MaxVar - 1, MaxVar}

TEST_CASE_ORIGINAL_5_VAR ==
  [clauses |-> <<<<1, -2, 3>>, <<-1, 2, -4>>, <<2, 3, 5>>, <<-3, 4, -5>>>>,
   num_variables |-> 5]

TEST_CASE_SMALL_UNSAT ==
  [clauses |-> <<<<1, 2, 3>>, <<1, 2, -3>>, <<1, -2, 3>>, <<1, -2, -3>>,
                 <<-1, 2, 3>>, <<-1, 2, -3>>, <<-1, -2, 3>>, <<-1, -2, -3>>>>,
   num_variables |-> 3]

TEST_CASE_MODERATE_SAT ==
  [clauses |-> <<<<1, 2, -3>>, <<-1, -2, 4>>, <<3, -4, 5>>,
                 <<-3, 4, 6>>, <<-5, -6, 1>>, <<5, 6, -2>>,
                 <<1, 3, 5>>, <<-2, -4, -6>>, <<2, 4, 6>>, <<3, -5, 6>>>>,
   num_variables |-> 6]

TEST_CASE_SMALL_SAT ==
  [clauses |-> <<<<1, 2, -1>>, <<-1, -2, 2>>>>, num_variables |-> 2]

ALL_TEST_CASES ==
  {TEST_CASE_ORIGINAL_5_VAR, TEST_CASE_SMALL_UNSAT, TEST_CASE_MODERATE_SAT,
   TEST_CASE_SMALL_SAT}

\* the test_cnf of example_sat_solver.py
test_cnf ==
  [clauses |-> <<<<1, 2>>, <<-1, 3>>, <<-2, -3>>>>, num_variables |-> 3]

\* a satisfiable formula on which setting x1 true satisfies three clauses, setting it
\* false one, neither contradicts a clause, and no solution has x1 true
MARGIN_TRAP ==
  [clauses |-> <<<<1, 2>>, <<1, 2>>, <<1, 2>>, <<2>>, <<-1, -2>>>>, num_variables |-> 2]

Inputs ==
  {[clauses |-> f, num_variables |-> n] : f \in FormulasUpTo(MaxLits), n \in NumVarsChoices}
    \cup ALL_TEST_CASES \cup {test_cnf, MARGIN_TRAP}

(***************************************************************************)
(* The clause oracle and its relatives.                                    *)
(***************************************************************************)
LiteralTrue(literal, assignments) ==
  (literal > 0 /\ assignments[Abs(literal)]) \/ (literal < 0 /\ ~assignments[Abs(literal)])

RECURSIVE SatisfiedFrom(_, _, _)
SatisfiedFrom(clause, assignments, k) ==
  IF k > Len(clause) THEN FALSE
  ELSE IF Abs(clause[k]) \in DOMAIN assignments /\ LiteralTrue(clause[k], assignments)
       THEN TRUE
       ELSE SatisfiedFrom(clause, assignments, k + 1)

\* is_clause_satisfied answering from the first assigned literal it meets
is_clause_satisfied_first_assigned(clause, assignments) ==
  LET assigned == SelectSeq(clause, LAMBDA literal : Abs(literal) \in DOMAIN assignments)
  IN assigned # <<>> /\ LiteralTrue(assigned[1], assignments)

\* utils.is_clause_satisfied
is_clause_satisfied(clause, assignments) == SatisfiedFrom(clause, assignments, 1)

\* the dict write that is lost: the dict stays as it was
Put_lost(assignments, var, value) == assignments

\* new = dict.copy(); new[var] = value
Put(assignments, var, value) ==
  [x \in (DOMAIN assignments) \cup {var} |-> IF x = var THEN value ELSE assignments[x]]

Del(assignments, var) == [x \in (DOMAIN assignments) \ {var} |-> assignments[x]]

(***************************************************************************)
(* State.                                                                  *)
(***************************************************************************)
VARIABLES
  clauses,        \* the formula's clause list (the caller's list object)
  num_variables,  \* the declared variable count
  solver,         \* "none" before a solve, then the solver that was called
  stack,          \* the active recursive calls, innermost last
  ret,            \* the value the call that returned last handed to its caller
  stats,          \* the statistics record of the running solve
  out,            \* what the top-level solve returned and reported
  probe,          \* the assignment handed to the oracle when it is called on its own
  earlier         \* what the calls made before this one returned, oldest first

vars == <<clauses, num_variables, solver, stack, ret, stats, out, probe, earlier>>

Top == stack[Len(stack)]
Caller == SubSeq(stack, 1, Len(stack) - 1)
SetTop(f) == [stack EXCEPT ![Len(stack)] = f]

Init ==
  /\ \E inp \in Inputs : clauses = inp.clauses /\ num_variables = inp.num_variables
  /\ solver = "none"
  /\ stack = <<>>
  /\ ret = Pending
  /\ stats = <<>>
  /\ out = Pending
  /\ probe = <<>>
  /\ earlier = <<>>

(***************************************************************************)
(* The backward clause-targeted solver.                                    *)
(***************************************************************************)
\* the index update dropping every clause that names an assigned variable
StillUnsatisfied_any_assigned(indices, assignments) ==
  SelectSeq(indices, LAMBDA idx :
    \A k \in DOMAIN clauses[idx] : Abs(clauses[idx][k]) \notin DOMAIN assignments)

\* the index update that drops the target clause alone
StillUnsatisfied_target_only(indices, assignments) == Tail(indices)

\* lines 82-85: the indices of `indices` whose clause new_assignments leaves unsatisfied
StillUnsatisfied(indices, assignments) ==
  SelectSeq(indices, LAMBDA idx : ~is_clause_satisfied(clauses[idx], assignments))

\* solve_3sat_backward, lines 132-155: the statistics, the index list, the first call
BackwardSolve ==
  /\ solver = "none"
  /\ solver' = "backward"
  /\ stats' = [num_variables |-> num_variables, num_clauses |-> Len(clauses),
               recursive_calls |-> 0, backtracks |-> 0, branch_choices_count |-> 0,
               defaulted_variables |-> <<>>]
  /\ stack' = <<[current_assignments |-> <<>>,
                 unsatisfied_clause_indices |-> [k \in 1..Len(clauses) |-> k],
                 pc |-> "entry", i |-> 1]>>
  /\ UNCHANGED <<clauses, num_variables, probe, earlier, ret, out>>

\* the call counted only after the base case has been passed
BackwardEntry_counts_after_base ==
  /\ solver = "backward" /\ stack # <<>> /\ Top.pc = "entry"
  /\ IF Top.unsatisfied_clause_indices = <<>>
     THEN /\ stats' = stats
          /\ ret' = Some(Top.current_assignments)
          /\ stack' = Caller
     ELSE /\ stats' = [stats EXCEPT !.recursive_calls = @ + 1]
          /\ ret' = ret
          /\ stack' = SetTop([Top EXCEPT !.pc = "loop"])
  /\ UNCHANGED <<clauses, num_variables, probe, earlier, solver, out>>

\* _find_solution_recursive, lines 51-60: count the call, succeed if nothing is unsatisfied
BackwardEntry ==
  /\ solver = "backward" /\ stack # <<>> /\ Top.pc = "entry"
  /\ stats' = [stats EXCEPT !.recursive_calls = @ + 1]
  /\ IF Top.unsatisfied_clause_indices = <<>>
     THEN /\ ret' = Some(Top.current_assignments)
          /\ stack' = Caller
     ELSE /\ ret' = ret
          /\ stack' = SetTop([Top EXCEPT !.pc = "loop"])
  /\ UNCHANGED <<clauses, num_variables, probe, earlier, solver, out>>

\* _find_solution_recursive, lines 63-93 and 101-103: one literal of the target clause
BackwardLiteral ==
  /\ solver = "backward" /\ stack # <<>> /\ Top.pc = "loop"
  /\ LET target_clause == clauses[Top.unsatisfied_clause_indices[1]]
     IN IF Top.i > Len(target_clause)
        THEN /\ stats' = [stats EXCEPT !.backtracks = @ + 1]
             /\ ret' = None
             /\ stack' = Caller
        ELSE LET literal == target_clause[Top.i]
                 variable_to_assign == Abs(literal)
                 value_to_assign == literal > 0
                 new_assignments ==
                   Put(Top.current_assignments, variable_to_assign, value_to_assign)
             IN /\ stats' = stats
                /\ ret' = ret
                /\ IF variable_to_assign \in DOMAIN Top.current_assignments
                   THEN stack' = SetTop([Top EXCEPT !.i = @ + 1])
                   ELSE stack' = Append(SetTop([Top EXCEPT !.pc = "call"]),
                          [current_assignments |-> new_assignments,
                           unsatisfied_clause_indices |->
                             StillUnsatisfied(Top.unsatisfied_clause_indices, new_assignments),
                           pc |-> "entry", i |-> 1])
  /\ UNCHANGED <<clauses, num_variables, probe, earlier, solver, out>>

\* the caller giving up after the first literal whose call fails
BackwardReturned_gives_up ==
  /\ solver = "backward" /\ stack # <<>> /\ Top.pc = "call" /\ ret.tag # "Pending"
  /\ IF ret.tag = "Some"
     THEN stats' = [stats EXCEPT !.branch_choices_count = @ + 1]
     ELSE stats' = [stats EXCEPT !.backtracks = @ + 1]
  /\ ret' = ret
  /\ stack' = Caller
  /\ UNCHANGED <<clauses, num_variables, probe, earlier, solver, out>>

\* _find_solution_recursive, lines 95-99: the recursive call has returned
BackwardReturned ==
  /\ solver = "backward" /\ stack # <<>> /\ Top.pc = "call" /\ ret.tag # "Pending"
  /\ IF ret.tag = "Some"
     THEN /\ stats' = [stats EXCEPT !.branch_choices_count = @ + 1]
          /\ ret' = ret
          /\ stack' = Caller
     ELSE /\ stats' = stats
          /\ ret' = Pending
          /\ stack' = SetTop([Top EXCEPT !.pc = "loop", !.i = @ + 1])
  /\ UNCHANGED <<clauses, num_variables, probe, earlier, solver, out>>

RECURSIVE CompleteFrom(_, _, _)
\* solve_3sat_backward, lines 166-175: [complete_solution, defaulted] over var..num_variables
CompleteFrom(solution, var, acc) ==
  IF var > num_variables THEN acc
  ELSE IF var \in DOMAIN solution
       THEN CompleteFrom(solution, var + 1,
              [acc EXCEPT !.complete_solution = Put(@, var, solution[var])])
       ELSE CompleteFrom(solution, var + 1,
              [acc EXCEPT !.complete_solution = Put(@, var, FALSE),
                          !.defaulted = Append(@, var)])

\* solve_3sat_backward, lines 162-235: complete the solution and return
BackwardFinish ==
  /\ solver = "backward" /\ stack = <<>> /\ ret.tag # "Pending" /\ out.tag = "Pending"
  /\ IF ret.tag = "Some"
     THEN LET done == CompleteFrom(ret.val, 1, [complete_solution |-> <<>>, defaulted |-> <<>>])
          IN /\ stats' = [status |-> "SATISFIABLE", solution |-> Some(done.complete_solution)]
                           @@ [stats EXCEPT !.defaulted_variables = @ \o done.defaulted]
             /\ out' = [tag |-> "Returned", status |-> "SATISFIABLE",
                        assignment |-> Some(done.complete_solution),
                        value |-> Some(<<Some(done.complete_solution), stats'>>)]
     ELSE /\ stats' = [status |-> "UNSATISFIABLE", solution |-> None] @@ stats
          /\ out' = [tag |-> "Returned", status |-> "UNSATISFIABLE",
                     assignment |-> None,
                     value |-> Some(<<None, stats'>>)]
  /\ UNCHANGED <<clauses, num_variables, probe, earlier, solver, stack, ret>>


(***************************************************************************)
(* The DPLL solver.                                                        *)
(***************************************************************************)
RECURSIVE DpllSatisfiedFrom(_, _, _)
DpllSatisfiedFrom(clause, assignment, k) ==
  IF k > Len(clause) THEN FALSE
  ELSE IF Abs(clause[k]) \in DOMAIN assignment
          /\ LET value == assignment[Abs(clause[k])]
             IN (clause[k] > 0 /\ value) \/ (clause[k] < 0 /\ ~value)
       THEN TRUE
       ELSE DpllSatisfiedFrom(clause, assignment, k + 1)

\* SimpleDPLLSolver._is_satisfied
_is_satisfied(clause, assignment) == DpllSatisfiedFrom(clause, assignment, 1)

\* the literals of the clause whose variable is not assigned, in clause order
UnassignedLiterals(clause, assignment) ==
  SelectSeq(clause, LAMBDA literal : Abs(literal) \notin DOMAIN assignment)

RECURSIVE FindUnitFrom(_, _, _)
FindUnitFrom(cls, assignment, k) ==
  IF k > Len(cls) THEN None
  ELSE IF ~_is_satisfied(cls[k], assignment)
          /\ Len(UnassignedLiterals(cls[k], assignment)) = 1
       THEN Some(UnassignedLiterals(cls[k], assignment))
       ELSE FindUnitFrom(cls, assignment, k + 1)

\* _find_unit_clause without the test that the clause is not satisfied yet
_find_unit_clause_of_any_clause(cls, assignment) ==
  LET units == {k \in DOMAIN cls : Len(UnassignedLiterals(cls[k], assignment)) = 1}
  IN IF units = {} THEN None
     ELSE Some(UnassignedLiterals(cls[CHOOSE k \in units : \A j \in units : k <= j],
                                  assignment))

\* SimpleDPLLSolver._find_unit_clause
_find_unit_clause(cls, assignment) == FindUnitFrom(cls, assignment, 1)

\* the inner loop of _has_conflict over one clause: [all_false, has_unassigned]
RECURSIVE ConflictScan(_, _, _)
ConflictScan(clause, assignment, k) ==
  IF k > Len(clause) THEN [all_false |-> TRUE, has_unassigned |-> FALSE]
  ELSE IF Abs(clause[k]) \notin DOMAIN assignment
       THEN [all_false |-> FALSE, has_unassigned |-> TRUE]
       ELSE LET value == assignment[Abs(clause[k])]
            IN IF (clause[k] > 0 /\ value) \/ (clause[k] < 0 /\ ~value)
               THEN [all_false |-> FALSE, has_unassigned |-> FALSE]
               ELSE ConflictScan(clause, assignment, k + 1)

RECURSIVE HasConflictFrom(_, _, _)
HasConflictFrom(cls, assignment, k) ==
  IF k > Len(cls) THEN FALSE
  ELSE LET scan == ConflictScan(cls[k], assignment, 1)
       IN IF scan.all_false /\ ~scan.has_unassigned THEN TRUE
          ELSE HasConflictFrom(cls, assignment, k + 1)

\* _has_conflict reporting every clause that is not satisfied yet
_has_conflict_counts_unassigned(cls, assignment) ==
  \E k \in DOMAIN cls : ~_is_satisfied(cls[k], assignment)

\* SimpleDPLLSolver._has_conflict
_has_conflict(cls, assignment) == HasConflictFrom(cls, assignment, 1)

RECURSIVE AllSatisfiedFrom(_, _, _)
AllSatisfiedFrom(cls, assignment, k) ==
  IF k > Len(cls) THEN TRUE
  ELSE IF ~_is_satisfied(cls[k], assignment) THEN FALSE
       ELSE AllSatisfiedFrom(cls, assignment, k + 1)

\* SimpleDPLLSolver._all_satisfied
_all_satisfied(cls, assignment) == AllSatisfiedFrom(cls, assignment, 1)

\* the unassigned literals of the clauses not yet satisfied, in scan order
RECURSIVE OpenLiteralsFrom(_, _, _)
OpenLiteralsFrom(cls, assignment, k) ==
  IF k > Len(cls) THEN <<>>
  ELSE (IF _is_satisfied(cls[k], assignment) THEN <<>>
        ELSE UnassignedLiterals(cls[k], assignment))
       \o OpenLiteralsFrom(cls, assignment, k + 1)

OpenLiterals(cls, assignment) == OpenLiteralsFrom(cls, assignment, 1)

Range(s) == {s[k] : k \in DOMAIN s}

MinOf(S) == CHOOSE x \in S : \A y \in S : x <= y

\* SimpleDPLLSolver._find_pure_literal.  next(iter(s)) of a set of small
\* non-negative ints is its least element: CPython keeps an int in the slot
\* of its own value while the value is below the table size.
_find_pure_literal(cls, assignment) ==
  LET open == Range(OpenLiterals(cls, assignment))
      positive_vars == {Abs(l) : l \in {m \in open : m > 0}}
      negative_vars == {Abs(l) : l \in {m \in open : ~(m > 0)}}
      pure_positive == positive_vars \ negative_vars
      pure_negative == negative_vars \ positive_vars
  IN IF pure_positive # {} THEN Some(MinOf(pure_positive))
     ELSE IF pure_negative # {} THEN Some(-MinOf(pure_negative))
     ELSE None

\* _choose_variable taking the first unassigned variable it meets, whatever its count
_choose_variable_first_met(cls, assignment) ==
  LET open == OpenLiterals(cls, assignment)
  IN IF open = <<>> THEN None ELSE Some(Abs(open[1]))

\* SimpleDPLLSolver._choose_variable: var_count keeps its keys in the order of
\* first insertion, and max() keeps the first of the most frequent ones
_choose_variable(cls, assignment) ==
  LET open == OpenLiterals(cls, assignment)
      var_count(v) == Cardinality({k \in DOMAIN open : Abs(open[k]) = v})
      first(v) == MinOf({k \in DOMAIN open : Abs(open[k]) = v})
      keys == {Abs(l) : l \in Range(open)}
      most == {v \in keys : \A w \in keys : var_count(w) <= var_count(v)}
  IN IF keys = {} THEN None
     ELSE Some(CHOOSE v \in most : \A w \in most : first(v) <= first(w))

\* self.statistics[...] += 1 writes into the dict object self.statistics names: a result
\* returned earlier that holds this very object shows the write
Written(statistics) ==
  [k \in DOMAIN earlier |->
     IF earlier[k].statistics_shared THEN [earlier[k] EXCEPT !.statistics = statistics]
     ELSE earlier[k]]

\* self.statistics = {...} names a new dict: the results returned earlier keep the old one
Rebound == [k \in DOMAIN earlier |-> [earlier[k] EXCEPT !.statistics_shared = FALSE]]

\* a _dpll call returns `value`; `frame` is the returning frame as it ends.
\* A frame that was handed its caller's own dict (shares) leaves its writes in it.
DpllReturn(frame, value) ==
  /\ ret' = Some(value)
  /\ IF Len(stack) > 1 /\ frame.shares
     THEN stack' = [Caller EXCEPT ![Len(stack) - 1].assignment = frame.assignment]
     ELSE stack' = Caller
  /\ IF Len(stack) = 1
     THEN out' = [tag |-> "Running", assignment |-> frame.assignment]
     ELSE out' = out

\* solve counting on in the dict the instance already has, created once in __init__
DpllSolve_keeps_statistics ==
  /\ solver = "none"
  /\ solver' = "dpll"
  /\ stats' = IF \E k \in DOMAIN earlier : earlier[k].statistics_shared
              THEN earlier[CHOOSE k \in DOMAIN earlier : earlier[k].statistics_shared].statistics
              ELSE [decisions |-> 0, unit_propagations |-> 0, conflicts |-> 0, backtracks |-> 0]
  /\ stack' = <<[assignment |-> <<>>, pc |-> "unit", var |-> 0, shares |-> TRUE]>>
  /\ UNCHANGED <<clauses, num_variables, probe, earlier, ret, out>>

\* SimpleDPLLSolver.solve, lines 21-32: reset the statistics, call _dpll on {}
DpllSolve ==
  /\ solver = "none"
  /\ solver' = "dpll"
  /\ stats' = [decisions |-> 0, unit_propagations |-> 0, conflicts |-> 0, backtracks |-> 0]
  /\ stack' = <<[assignment |-> <<>>, pc |-> "unit", var |-> 0, shares |-> TRUE]>>
  /\ earlier' = Rebound
  /\ UNCHANGED <<clauses, num_variables, probe, ret, out>>

\* unit propagation that also takes the clauses the new value satisfies out of the list
DpllUnit_drops_satisfied ==
  /\ solver = "dpll" /\ stack # <<>> /\ Top.pc = "unit"
  /\ LET unit_clause == _find_unit_clause(clauses, Top.assignment)
     IN IF unit_clause.tag = "None"
        THEN /\ stack' = SetTop([Top EXCEPT !.pc = "check"])
             /\ UNCHANGED <<stats, ret, out, clauses>>
        ELSE LET literal == unit_clause.val[1]
                 var == Abs(literal)
                 value == literal > 0
             IN /\ stack' = SetTop([Top EXCEPT !.assignment = Put(@, var, value)])
                /\ stats' = [stats EXCEPT !.unit_propagations = @ + 1]
                /\ clauses' = SelectSeq(clauses, LAMBDA clause :
                                ~_is_satisfied(clause, Put(Top.assignment, var, value)))
                /\ UNCHANGED <<ret, out>>
  /\ earlier' = Written(stats')
  /\ UNCHANGED <<num_variables, probe, solver>>

\* the unit propagation loop counting a propagation without storing the value
DpllUnit_forgets_value ==
  /\ solver = "dpll" /\ stack # <<>> /\ Top.pc = "unit"
  /\ LET unit_clause == _find_unit_clause(clauses, Top.assignment)
     IN IF unit_clause.tag = "None"
        THEN /\ stack' = SetTop([Top EXCEPT !.pc = "check"])
             /\ UNCHANGED <<stats, ret, out>>
        ELSE /\ stack' = stack
             /\ stats' = [stats EXCEPT !.unit_propagations = @ + 1]
             /\ UNCHANGED <<ret, out>>
  /\ earlier' = Written(stats')
  /\ UNCHANGED <<clauses, num_variables, probe, solver>>

\* _dpll, lines 40-55: one round of the unit propagation loop
DpllUnit ==
  /\ solver = "dpll" /\ stack # <<>> /\ Top.pc = "unit"
  /\ LET unit_clause == _find_unit_clause(clauses, Top.assignment)
     IN IF unit_clause.tag = "None"
        THEN /\ stack' = SetTop([Top EXCEPT !.pc = "check"])
             /\ UNCHANGED <<stats, ret, out>>
        ELSE LET literal == unit_clause.val[1]
                 var == Abs(literal)
                 value == literal > 0
             IN IF var \in DOMAIN Top.assignment /\ Top.assignment[var] # value
                THEN /\ stats' = [stats EXCEPT !.conflicts = @ + 1]
                     /\ DpllReturn(Top, FALSE)
                ELSE /\ stack' = SetTop([Top EXCEPT !.assignment = Put(@, var, value)])
                     /\ stats' = [stats EXCEPT !.unit_propagations = @ + 1]
                     /\ UNCHANGED <<ret, out>>
  /\ earlier' = Written(stats')
  /\ UNCHANGED <<clauses, num_variables, probe, solver>>

\* _dpll handing each branch its own dict instead of a copy
DpllDecide_branches_without_copy ==
  /\ solver = "dpll" /\ stack # <<>> /\ Top.pc = "check"
  /\ LET assignment == Top.assignment
         pure_literal == _find_pure_literal(clauses, assignment)
         chosen == _choose_variable(clauses, assignment)
     IN IF _has_conflict(clauses, assignment)
        THEN /\ stats' = [stats EXCEPT !.conflicts = @ + 1]
             /\ DpllReturn(Top, FALSE)
        ELSE IF _all_satisfied(clauses, assignment)
        THEN /\ stats' = stats
             /\ DpllReturn(Top, TRUE)
        ELSE IF pure_literal.tag = "Some"
        THEN LET extended == Put(assignment, Abs(pure_literal.val), pure_literal.val > 0)
             IN /\ stack' = Append(SetTop([Top EXCEPT !.assignment = extended, !.pc = "pure"]),
                              [assignment |-> extended, pc |-> "unit", var |-> 0,
                               shares |-> TRUE])
                /\ UNCHANGED <<stats, ret, out>>
        ELSE IF chosen.tag = "None"
        THEN /\ stats' = stats
             /\ DpllReturn(Top, TRUE)
        ELSE LET extended == Put(assignment, chosen.val, TRUE)
             IN /\ stats' = [stats EXCEPT !.decisions = @ + 1]
                /\ stack' = Append(SetTop([Top EXCEPT !.assignment = extended, !.pc = "true",
                                                      !.var = chosen.val]),
                              [assignment |-> extended, pc |-> "unit", var |-> 0,
                               shares |-> TRUE])
                /\ UNCHANGED <<ret, out>>
  /\ earlier' = Written(stats')
  /\ UNCHANGED <<clauses, num_variables, probe, solver>>

\* _dpll, lines 57-82: conflict, success, pure literal, or the true branch
DpllDecide ==
  /\ solver = "dpll" /\ stack # <<>> /\ Top.pc = "check"
  /\ LET assignment == Top.assignment
         pure_literal == _find_pure_literal(clauses, assignment)
         chosen == _choose_variable(clauses, assignment)
     IN IF _has_conflict(clauses, assignment)
        THEN /\ stats' = [stats EXCEPT !.conflicts = @ + 1]
             /\ DpllReturn(Top, FALSE)
        ELSE IF _all_satisfied(clauses, assignment)
        THEN /\ stats' = stats
             /\ DpllReturn(Top, TRUE)
        ELSE IF pure_literal.tag = "Some"
        THEN LET extended == Put(assignment, Abs(pure_literal.val), pure_literal.val > 0)
             IN /\ stack' = Append(SetTop([Top EXCEPT !.assignment = extended, !.pc = "pure"]),
                              [assignment |-> extended, pc |-> "unit", var |-> 0,
                               shares |-> TRUE])
                /\ UNCHANGED <<stats, ret, out>>
        ELSE IF chosen.tag = "None"
        THEN /\ stats' = stats
             /\ DpllReturn(Top, TRUE)
        ELSE LET extended == Put(assignment, chosen.val, TRUE)
             IN /\ stats' = [stats EXCEPT !.decisions = @ + 1]
                /\ stack' = Append(SetTop([Top EXCEPT !.assignment = extended, !.pc = "true",
                                                      !.var = chosen.val]),
                              [assignment |-> extended, pc |-> "unit", var |-> 0,
                               shares |-> FALSE])
                /\ UNCHANGED <<ret, out>>
  /\ earlier' = Written(stats')
  /\ UNCHANGED <<clauses, num_variables, probe, solver>>

\* _dpll, line 72: the call made after a pure literal has returned
DpllPureReturned ==
  /\ solver = "dpll" /\ stack # <<>> /\ Top.pc = "pure" /\ ret.tag = "Some"
  /\ DpllReturn(Top, ret.val)
  /\ UNCHANGED <<clauses, num_variables, probe, earlier, solver, stats>>

\* _dpll, lines 82-88: the true branch has returned
DpllTrueReturned ==
  /\ solver = "dpll" /\ stack # <<>> /\ Top.pc = "true" /\ ret.tag = "Some"
  /\ IF ret.val
     THEN /\ stats' = stats
          /\ DpllReturn(Top, TRUE)
     ELSE LET flipped == Put(Top.assignment, Top.var, FALSE)
          IN /\ stats' = [stats EXCEPT !.backtracks = @ + 1]
             /\ stack' = Append(SetTop([Top EXCEPT !.assignment = flipped, !.pc = "false"]),
                           [assignment |-> flipped, pc |-> "unit", var |-> 0,
                            shares |-> FALSE])
             /\ ret' = Pending
             /\ out' = out
  /\ earlier' = Written(stats')
  /\ UNCHANGED <<clauses, num_variables, probe, solver>>

\* _dpll, lines 88-93: the false branch has returned
DpllFalseReturned ==
  /\ solver = "dpll" /\ stack # <<>> /\ Top.pc = "false" /\ ret.tag = "Some"
  /\ IF ret.val
     THEN DpllReturn(Top, TRUE)
     ELSE DpllReturn([Top EXCEPT !.assignment = Del(@, Top.var)], FALSE)
  /\ UNCHANGED <<clauses, num_variables, probe, earlier, solver, stats>>

\* SimpleDPLLSolver.solve, line 34: (result, assignment if result else None, statistics)
DpllFinish ==
  /\ solver = "dpll" /\ stack = <<>> /\ ret.tag = "Some" /\ out.tag = "Running"
  /\ LET result == ret.val
         assignment == IF result THEN Some(out.assignment) ELSE None
     IN out' = [tag |-> "Returned",
                status |-> IF result THEN "SATISFIABLE" ELSE "UNSATISFIABLE",
                assignment |-> assignment,
                value |-> Some(<<result, assignment, stats>>)]
  /\ UNCHANGED <<clauses, num_variables, probe, earlier, solver, stack, ret, stats>>

(***************************************************************************)
(* The goal-oriented heuristic solver.                                     *)
(***************************************************************************)
\* _get_unsatisfied_clause_indices
_get_unsatisfied_clause_indices(cls, assignments, current_unsatisfied) ==
  SelectSeq(current_unsatisfied, LAMBDA idx : ~is_clause_satisfied(cls[idx], assignments))

RECURSIVE ContradictionFrom(_, _, _)
ContradictionFrom(clause, assignments, k) ==
  IF k > Len(clause) THEN TRUE
  ELSE IF Abs(clause[k]) \notin DOMAIN assignments THEN FALSE
       ELSE IF LiteralTrue(clause[k], assignments) THEN FALSE
            ELSE ContradictionFrom(clause, assignments, k + 1)

\* _is_clause_contradiction passing over unassigned literals
_is_clause_contradiction_skips_unassigned(clause, assignments) ==
  \A k \in DOMAIN clause :
    Abs(clause[k]) \in DOMAIN assignments => ~LiteralTrue(clause[k], assignments)

\* _is_clause_contradiction
_is_clause_contradiction(clause, assignments) == ContradictionFrom(clause, assignments, 1)

RECURSIVE CheckContradictionFrom(_, _, _)
CheckContradictionFrom(cls, assignments, k) ==
  IF k > Len(cls) THEN FALSE
  ELSE IF _is_clause_contradiction(cls[k], assignments) THEN TRUE
       ELSE CheckContradictionFrom(cls, assignments, k + 1)

\* _check_for_contradiction answering from the first clause alone
_check_for_contradiction_first_clause(cls, assignments) ==
  cls # <<>> /\ _is_clause_contradiction(cls[1], assignments)

\* _check_for_contradiction
_check_for_contradiction(cls, assignments) == CheckContradictionFrom(cls, assignments, 1)

\* _evaluate_variable_assignment: [causes_contradiction, newly_satisfied_count,
\* remaining_unsatisfied]
_evaluate_variable_assignment(variable, value, current_assignments, original_clauses, unsatisfied_clause_indices) ==
  LET potential_assignment == Put(current_assignments, variable, value)
      remaining_unsatisfied ==
        _get_unsatisfied_clause_indices(original_clauses, potential_assignment,
                                        unsatisfied_clause_indices)
  IN [causes_contradiction |-> _check_for_contradiction(original_clauses, potential_assignment),
      newly_satisfied_count |-> Len(unsatisfied_clause_indices) - Len(remaining_unsatisfied),
      remaining_unsatisfied |-> remaining_unsatisfied]

\* _make_heuristic_decision forcing a polarity already when its count reaches the margin
_make_heuristic_decision_at_margin(variable, true_contradiction, false_contradiction, true_satisfied_count, false_satisfied_count, factor) ==
  IF ~true_contradiction /\ false_contradiction THEN Some(TRUE)
  ELSE IF ~false_contradiction /\ true_contradiction THEN Some(FALSE)
  ELSE IF ~true_contradiction /\ ~false_contradiction
          /\ true_satisfied_count >= false_satisfied_count + factor
       THEN Some(TRUE)
  ELSE IF ~true_contradiction /\ ~false_contradiction
          /\ false_satisfied_count >= true_satisfied_count + factor
       THEN Some(FALSE)
  ELSE None

\* _make_heuristic_decision: Some(value_to_force), or None for (None, None)
_make_heuristic_decision(variable, true_contradiction, false_contradiction, true_satisfied_count, false_satisfied_count, factor) ==
  IF ~true_contradiction /\ false_contradiction THEN Some(TRUE)
  ELSE IF ~false_contradiction /\ true_contradiction THEN Some(FALSE)
  ELSE IF ~true_contradiction /\ ~false_contradiction
          /\ true_satisfied_count > false_satisfied_count + factor
       THEN Some(TRUE)
  ELSE IF ~true_contradiction /\ ~false_contradiction
          /\ false_satisfied_count > true_satisfied_count + factor
       THEN Some(FALSE)
  ELSE None

\* _recursive_solve_with_heuristic, line 420
heuristic_factor == 1

GoalFrame(assignments, types, unsatisfied) ==
  [current_assignments |-> assignments, assignment_types |-> types,
   unsatisfied_clause_indices |-> unsatisfied, pc |-> "entry", variable |-> 1, i |-> 1]

\* the search starting from a dict that outlives the call and still holds what the
\* goal-oriented solve before it left there
GoalSolve_reuses_assignment ==
  /\ solver = "none"
  /\ solver' = "goal"
  /\ stats' = [recursive_calls |-> 0, backtracks_on_branch |-> 0,
               heuristic_choices_count |-> 0, branch_choices_count |-> 0,
               defaulted_variables |-> <<>>]
  /\ LET before == {k \in DOMAIN earlier : earlier[k].solver = "goal"}
         left == IF before = {} THEN <<>>
                 ELSE earlier[CHOOSE k \in before : \A j \in before : j <= k].assignment.val
     IN stack' = <<GoalFrame(left, <<>>, [k \in 1..Len(clauses) |-> k])>>
  /\ UNCHANGED <<clauses, num_variables, probe, earlier, ret, out>>

\* solve_3sat_goal_oriented, lines 35-52: the statistics, the index list, the first call
GoalSolve ==
  /\ solver = "none"
  /\ solver' = "goal"
  /\ stats' = [recursive_calls |-> 0, backtracks_on_branch |-> 0,
               heuristic_choices_count |-> 0, branch_choices_count |-> 0,
               defaulted_variables |-> <<>>]
  /\ stack' = <<GoalFrame(<<>>, <<>>, [k \in 1..Len(clauses) |-> k])>>
  /\ UNCHANGED <<clauses, num_variables, probe, earlier, ret, out>>

\* _recursive_solve_with_heuristic, lines 410-420
GoalEntry ==
  /\ solver = "goal" /\ stack # <<>> /\ Top.pc = "entry"
  /\ stats' = [stats EXCEPT !.recursive_calls = @ + 1]
  /\ IF Top.unsatisfied_clause_indices = <<>>
     THEN /\ ret' = Some([solution |-> Top.current_assignments,
                          assignment_types |-> Top.assignment_types])
          /\ stack' = Caller
     ELSE /\ ret' = ret
          /\ stack' = SetTop([Top EXCEPT !.pc = "scan"])
  /\ UNCHANGED <<clauses, num_variables, probe, earlier, solver, out>>

\* _recursive_solve_with_heuristic, lines 423-439, with _apply_heuristic_for_variable,
\* lines 272-313: one variable of the scan, or the end of the scan
GoalScan ==
  /\ solver = "goal" /\ stack # <<>> /\ Top.pc = "scan"
  /\ IF Top.variable > num_variables
     THEN /\ stats' = [stats EXCEPT !.branch_choices_count = @ + 1]
          /\ stack' = SetTop([Top EXCEPT !.pc = "branch"])
     ELSE IF Top.variable \in DOMAIN Top.current_assignments
     THEN /\ stats' = stats
          /\ stack' = SetTop([Top EXCEPT !.variable = @ + 1])
     ELSE LET t == _evaluate_variable_assignment(Top.variable, TRUE, Top.current_assignments,
                     clauses, Top.unsatisfied_clause_indices)
              f == _evaluate_variable_assignment(Top.variable, FALSE, Top.current_assignments,
                     clauses, Top.unsatisfied_clause_indices)
              forced == _make_heuristic_decision(Top.variable,
                          t.causes_contradiction, f.causes_contradiction,
                          t.newly_satisfied_count, f.newly_satisfied_count, heuristic_factor)
          IN IF forced.tag = "Some"
             THEN /\ stats' = [stats EXCEPT !.heuristic_choices_count = @ + 1]
                  /\ stack' = Append(SetTop([Top EXCEPT !.pc = "forced"]),
                       GoalFrame(Put(Top.current_assignments, Top.variable, forced.val),
                                 Put(Top.assignment_types, Top.variable, "Heuristic Set"),
                                 IF forced.val THEN t.remaining_unsatisfied
                                 ELSE f.remaining_unsatisfied))
             ELSE /\ stats' = stats
                  /\ stack' = SetTop([Top EXCEPT !.variable = @ + 1])
  /\ UNCHANGED <<clauses, num_variables, probe, earlier, solver, ret, out>>

\* the scan ending with whatever the forced choice's call returned
GoalForcedReturned_final ==
  /\ solver = "goal" /\ stack # <<>> /\ Top.pc = "forced" /\ ret.tag # "Pending"
  /\ ret' = ret
  /\ stack' = Caller
  /\ UNCHANGED <<clauses, num_variables, probe, earlier, solver, stats, out>>

\* the scan given up after a forced choice whose call failed: the call goes to branching
GoalForcedReturned_skips_rest ==
  /\ solver = "goal" /\ stack # <<>> /\ Top.pc = "forced" /\ ret.tag # "Pending"
  /\ IF ret.tag = "Some"
     THEN /\ ret' = ret
          /\ stack' = Caller
     ELSE /\ ret' = Pending
          /\ stack' = SetTop([Top EXCEPT !.pc = "scan", !.variable = num_variables + 1])
  /\ UNCHANGED <<clauses, num_variables, probe, earlier, solver, stats, out>>

\* _apply_heuristic_for_variable, line 316, and _recursive_solve_with_heuristic,
\* lines 435-436: the call made for a forced choice has returned
GoalForcedReturned ==
  /\ solver = "goal" /\ stack # <<>> /\ Top.pc = "forced" /\ ret.tag # "Pending"
  /\ IF ret.tag = "Some"
     THEN /\ ret' = ret
          /\ stack' = Caller
     ELSE /\ ret' = Pending
          /\ stack' = SetTop([Top EXCEPT !.pc = "scan", !.variable = @ + 1])
  /\ UNCHANGED <<clauses, num_variables, probe, earlier, solver, stats, out>>

\* a literal whose value contradicts a clause passed over without counting it
GoalBranch_silent_contradiction ==
  /\ solver = "goal" /\ stack # <<>> /\ Top.pc = "branch"
  /\ LET target_clause == clauses[Top.unsatisfied_clause_indices[1]]
     IN IF Top.i > Len(target_clause)
        THEN /\ stats' = [stats EXCEPT !.backtracks_on_branch = @ + 1]
             /\ ret' = None
             /\ stack' = Caller
        ELSE LET literal == target_clause[Top.i]
                 variable == Abs(literal)
                 new_assignments == Put(Top.current_assignments, variable, literal > 0)
                 new_assignment_types == Put(Top.assignment_types, variable, "Branch Set")
                 new_unsatisfied_indices ==
                   _get_unsatisfied_clause_indices(clauses, new_assignments,
                                                   Top.unsatisfied_clause_indices)
             IN /\ ret' = ret
                /\ stats' = stats
                /\ IF variable \in DOMAIN Top.current_assignments
                      \/ _check_for_contradiction(clauses, new_assignments)
                   THEN stack' = SetTop([Top EXCEPT !.i = @ + 1])
                   ELSE stack' = Append(SetTop([Top EXCEPT !.pc = "branched"]),
                             GoalFrame(new_assignments, new_assignment_types,
                                       new_unsatisfied_indices))
  /\ UNCHANGED <<clauses, num_variables, probe, earlier, solver, out>>

\* _try_branch_on_target_clause, lines 346-377 and 383-385: one literal of the target
GoalBranch ==
  /\ solver = "goal" /\ stack # <<>> /\ Top.pc = "branch"
  /\ LET target_clause == clauses[Top.unsatisfied_clause_indices[1]]
     IN IF Top.i > Len(target_clause)
        THEN /\ stats' = [stats EXCEPT !.backtracks_on_branch = @ + 1]
             /\ ret' = None
             /\ stack' = Caller
        ELSE LET literal == target_clause[Top.i]
                 variable == Abs(literal)
                 new_assignments == Put(Top.current_assignments, variable, literal > 0)
                 new_assignment_types == Put(Top.assignment_types, variable, "Branch Set")
                 new_unsatisfied_indices ==
                   _get_unsatisfied_clause_indices(clauses, new_assignments,
                                                   Top.unsatisfied_clause_indices)
             IN /\ ret' = ret
                /\ IF variable \in DOMAIN Top.current_assignments
                   THEN /\ stats' = stats
                        /\ stack' = SetTop([Top EXCEPT !.i = @ + 1])
                   ELSE IF _check_for_contradiction(clauses, new_assignments)
                   THEN /\ stats' = [stats EXCEPT !.backtracks_on_branch = @ + 1]
                        /\ stack' = SetTop([Top EXCEPT !.i = @ + 1])
                   ELSE /\ stats' = stats
                        /\ stack' = Append(SetTop([Top EXCEPT !.pc = "branched"]),
                             GoalFrame(new_assignments, new_assignment_types,
                                       new_unsatisfied_indices))
  /\ UNCHANGED <<clauses, num_variables, probe, earlier, solver, out>>

\* _try_branch_on_target_clause, lines 379-381: the call made for a literal has returned
GoalBranchReturned ==
  /\ solver = "goal" /\ stack # <<>> /\ Top.pc = "branched" /\ ret.tag # "Pending"
  /\ IF ret.tag = "Some"
     THEN /\ ret' = ret
          /\ stack' = Caller
     ELSE /\ ret' = Pending
          /\ stack' = SetTop([Top EXCEPT !.pc = "branch", !.i = @ + 1])
  /\ UNCHANGED <<clauses, num_variables, probe, earlier, solver, stats, out>>

RECURSIVE DefaultFrom(_, _)
\* the default fill that does not record the variables it fills
DefaultFrom_unrecorded(var, acc) ==
  [solution |-> [v \in DOMAIN acc.solution \cup var..num_variables |->
                   IF v \in DOMAIN acc.solution THEN acc.solution[v] ELSE FALSE],
   assignment_types |-> [v \in DOMAIN acc.solution \cup var..num_variables |->
                           IF v \in DOMAIN acc.solution THEN acc.assignment_types[v]
                           ELSE "Defaulted"],
   defaulted |-> acc.defaulted]

\* solve_3sat_goal_oriented, lines 63-67: the loop writes into the dicts the search returned
DefaultFrom(var, acc) ==
  IF var > num_variables THEN acc
  ELSE IF var \notin DOMAIN acc.solution
       THEN DefaultFrom(var + 1,
              [solution |-> Put(acc.solution, var, FALSE),
               assignment_types |-> Put(acc.assignment_types, var, "Defaulted"),
               defaulted |-> Append(acc.defaulted, var)])
       ELSE DefaultFrom(var + 1, acc)

\* solve_3sat_goal_oriented, lines 58-95: complete the solution, write the report; the
\* function has no return statement, so the call evaluates to None
GoalFinish ==
  /\ solver = "goal" /\ stack = <<>> /\ ret.tag # "Pending" /\ out.tag = "Pending"
  /\ IF ret.tag = "Some"
     THEN LET done == DefaultFrom(1, [solution |-> ret.val.solution,
                                      assignment_types |-> ret.val.assignment_types,
                                      defaulted |-> <<>>])
          IN /\ stats' = [stats EXCEPT !.defaulted_variables = @ \o done.defaulted]
             /\ out' = [tag |-> "Returned", status |-> "SATISFIABLE",
                        assignment |-> Some(done.solution),
                        assignment_types |-> done.assignment_types,
                        value |-> None]
     ELSE /\ stats' = stats
          /\ out' = [tag |-> "Returned", status |-> "UNSATISFIABLE",
                     assignment |-> Some(<<>>),
                     assignment_types |-> <<>>,
                     value |-> None]
  /\ UNCHANGED <<clauses, num_variables, probe, earlier, solver, stack, ret>>

Next ==
  \/ GoalSolve
  \/ GoalEntry
  \/ GoalScan
  \/ GoalForcedReturned
  \/ GoalBranch
  \/ GoalBranchReturned
  \/ GoalFinish
  \/ DpllSolve
  \/ DpllUnit
  \/ DpllDecide
  \/ DpllPureReturned
  \/ DpllTrueReturned
  \/ DpllFalseReturned
  \/ DpllFinish
  \/ BackwardSolve
  \/ BackwardEntry
  \/ BackwardLiteral
  \/ BackwardReturned
  \/ BackwardFinish

Spec == Init /\ [][Next]_vars

\* the inputs whose declared variable count covers every variable an enumerated formula
\* may name
InitFair == Init /\ num_variables >= MaxVar

\* a solve is one sequential Python call: while a step of it remains, the step is taken
SpecFair == InitFair /\ [][Next]_vars /\ WF_vars(Next)

(***************************************************************************)
(* Several solves one after the other: one SimpleDPLLSolver instance and    *)
(* the two module-level solvers, called by one caller.                     *)
(***************************************************************************)
\* a session makes at most MaxCalls calls
MaxCalls == 3

SessionInputs == {TEST_CASE_ORIGINAL_5_VAR, TEST_CASE_SMALL_UNSAT, test_cnf, MARGIN_TRAP}

InitSession ==
  /\ \E inp \in SessionInputs : clauses = inp.clauses /\ num_variables = inp.num_variables
  /\ solver = "none"
  /\ stack = <<>>
  /\ ret = Pending
  /\ stats = <<>>
  /\ out = Pending
  /\ probe = <<>>
  /\ earlier = <<>>

\* the caller keeps what the call returned and calls a solver again; the tuple that
\* SimpleDPLLSolver.solve returned holds self.statistics itself (line 34)
NextCall ==
  /\ out.tag = "Returned" /\ Len(earlier) < MaxCalls - 1
  /\ earlier' = Append(earlier,
       [solver |-> solver, clauses |-> clauses, num_variables |-> num_variables,
        status |-> out.status, assignment |-> out.assignment, statistics |-> stats,
        statistics_shared |-> (solver = "dpll")])
  /\ \E inp \in SessionInputs : clauses' = inp.clauses /\ num_variables' = inp.num_variables
  /\ solver' = "none"
  /\ stack' = <<>>
  /\ ret' = Pending
  /\ stats' = <<>>
  /\ out' = Pending
  /\ probe' = probe

NextSession ==
  \/ Next
  \/ NextCall

SpecSession == InitSession /\ [][NextSession]_vars

(***************************************************************************)
(* The oracle and the conflict checks called on their own, on any clause   *)
(* list and any partial assignment.                                        *)
(***************************************************************************)
PartialAssignments == UNION {[S -> BOOLEAN] : S \in SUBSET (1..MaxVar)}

InitOracle ==
  /\ clauses \in FormulasUpTo(MaxLits)
  /\ num_variables = MaxVar
  /\ probe \in PartialAssignments
  /\ solver = "oracle"
  /\ stack = <<>>
  /\ ret = Pending
  /\ stats = <<>>
  /\ out = Pending
  /\ earlier = <<>>

\* is_clause_satisfied, _is_satisfied and _is_clause_contradiction on one clause
OracleClause ==
  /\ solver = "oracle" /\ out.tag = "Pending"
  /\ \E k \in DOMAIN clauses :
       out' = [tag |-> "Clause", clause |-> clauses[k],
               is_clause_satisfied |-> is_clause_satisfied(clauses[k], probe),
               is_satisfied |-> _is_satisfied(clauses[k], probe),
               is_clause_contradiction |-> _is_clause_contradiction(clauses[k], probe)]
  /\ UNCHANGED <<clauses, num_variables, probe, earlier, solver, stack, ret, stats>>

\* _has_conflict and _check_for_contradiction on the clause list
OracleClauseList ==
  /\ solver = "oracle" /\ out.tag = "Pending"
  /\ out' = [tag |-> "ClauseList",
             has_conflict |-> _has_conflict(clauses, probe),
             check_for_contradiction |-> _check_for_contradiction(clauses, probe)]
  /\ UNCHANGED <<clauses, num_variables, probe, earlier, solver, stack, ret, stats>>

NextOracle ==
  \/ OracleClause
  \/ OracleClauseList

SpecOracle == InitOracle /\ [][NextOracle]_vars

(***************************************************************************)
(* The structural transforms of CNFTransformer, src/cnf_transformer.py,    *)
(* each called on its own on any clause list.                              *)
(***************************************************************************)
\* CNFInstance.get_variable_count
get_variable_count(cls) ==
  Cardinality(UNION {{Abs(cls[k][j]) : j \in DOMAIN cls[k]} : k \in DOMAIN cls})

\* to_adjacency_list, lines 105-114, for the clauses from the k-th on: every variable of
\* the clause gets an entry, then its other variables as neighbours
RECURSIVE AdjacencyFrom(_, _, _)
AdjacencyFrom(cls, k, adjacency) ==
  IF k > Len(cls) THEN adjacency
  ELSE LET variables == {Abs(cls[k][j]) : j \in DOMAIN cls[k]}
       IN AdjacencyFrom(cls, k + 1,
            [var \in DOMAIN adjacency \cup variables |->
               (IF var \in DOMAIN adjacency THEN adjacency[var] ELSE {})
                 \cup (IF var \in variables THEN variables \ {var} ELSE {})])

\* to_adjacency_list giving an entry only to a variable that gets a neighbour
to_adjacency_list_without_lone_variables(cls) ==
  LET adjacency == AdjacencyFrom(cls, 1, <<>>)
  IN [var \in {v \in DOMAIN adjacency : adjacency[v] # {}} |-> adjacency[var]]

\* to_adjacency_list recording a pair on the side of its smaller variable only
to_adjacency_list_one_way(cls) ==
  LET adjacency == AdjacencyFrom(cls, 1, <<>>)
  IN [var \in DOMAIN adjacency |-> {other_var \in adjacency[var] : other_var > var}]

\* CNFTransformer.to_adjacency_list
to_adjacency_list(cls) == AdjacencyFrom(cls, 1, <<>>)

\* to_matrix_representation, lines 146-150: the literals of one clause from the j-th on,
\* written into row, a list indexed from 0; an index past its end raises IndexError
RECURSIVE RowFrom(_, _, _, _)
RowFrom(clause, max_var, j, row) ==
  IF j > Len(clause) THEN [tag |-> "Row", row |-> row]
  ELSE LET literal == clause[j]
           index == IF literal > 0 THEN literal - 1 ELSE max_var + Abs(literal) - 1
       IN IF index \notin DOMAIN row THEN [tag |-> "IndexError"]
          ELSE RowFrom(clause, max_var, j + 1, [row EXCEPT ![index] = 1])

\* to_matrix_representation, lines 143-152: the rows of the clauses from the k-th on
RECURSIVE MatrixFrom(_, _, _, _)
MatrixFrom(cls, max_var, k, matrix) ==
  IF k > Len(cls) THEN [tag |-> "Returned", matrix |-> matrix, rows |-> Len(cls),
                        cols |-> 2 * max_var]
  ELSE LET filled == RowFrom(cls[k], max_var, 1, [c \in 0..(2 * max_var - 1) |-> 0])
       IN IF filled.tag = "IndexError" THEN [tag |-> "IndexError"]
          ELSE MatrixFrom(cls, max_var, k + 1, Append(matrix, filled.row))

\* CNFTransformer.to_matrix_representation
to_matrix_representation(cls) == MatrixFrom(cls, get_variable_count(cls), 1, <<>>)

\* get_pure_literals returning the variable of a pure negative literal without its sign
get_pure_literals_unsigned(cls) ==
  LET literals == UNION {{cls[k][j] : j \in DOMAIN cls[k]} : k \in DOMAIN cls}
      positive_vars == {literal \in literals : literal > 0}
      negative_vars == {Abs(literal) : literal \in {l \in literals : ~(l > 0)}}
  IN (positive_vars \ negative_vars) \cup (negative_vars \ positive_vars)

\* CNFTransformer.get_pure_literals
get_pure_literals(cls) ==
  LET literals == UNION {{cls[k][j] : j \in DOMAIN cls[k]} : k \in DOMAIN cls}
      positive_vars == {literal \in literals : literal > 0}
      negative_vars == {Abs(literal) : literal \in {l \in literals : ~(l > 0)}}
      pure_positive == positive_vars \ negative_vars
      pure_negative == negative_vars \ positive_vars
  IN pure_positive \cup {-var : var \in pure_negative}

\* the clauses of the pure literal scenario: 1, 3 and 4 are pure, 2 has both polarities
PURE_LITERAL_CLAUSES == <<<<1, 2>>, <<1, -2>>, <<3, 4>>>>

\* extract_backbone leaving out the unit clauses of a negative literal
extract_backbone_positive_only(cls) ==
  {cls[k][1] : k \in {i \in DOMAIN cls : Len(cls[i]) = 1 /\ cls[i][1] > 0}}

\* CNFTransformer.extract_backbone
extract_backbone(cls) == {cls[k][1] : k \in {i \in DOMAIN cls : Len(cls[i]) = 1}}

\* the clauses of the backbone scenario: variable 5 is a unit clause in both polarities
BACKBONE_CLAUSES == <<<<5>>, <<-5>>, <<1, 2>>>>

\* implications[key].append(literal), the list created empty when the key is new
AppendUnder(implications, key, literal) ==
  [l \in DOMAIN implications \cup {key} |->
     IF l = key
     THEN (IF key \in DOMAIN implications THEN implications[key] ELSE <<>>) \o <<literal>>
     ELSE implications[l]]

\* to_implication_graph, lines 123-133, for the clauses from the k-th on
RECURSIVE ImplicationsFrom(_, _, _)
ImplicationsFrom(cls, k, implications) ==
  IF k > Len(cls) THEN implications
  ELSE IF Len(cls[k]) = 2
       THEN LET lit1 == cls[k][1]
                lit2 == cls[k][2]
            IN ImplicationsFrom(cls, k + 1,
                 AppendUnder(AppendUnder(implications, -lit1, lit2), -lit2, lit1))
       ELSE ImplicationsFrom(cls, k + 1, implications)

\* to_implication_graph recording only that the negation of the first literal implies
\* the second
RECURSIVE to_implication_graph_first_only(_)
to_implication_graph_first_only(cls) ==
  IF cls = <<>> THEN <<>>
  ELSE LET before == to_implication_graph_first_only(SubSeq(cls, 1, Len(cls) - 1))
           clause == cls[Len(cls)]
       IN IF Len(clause) = 2 THEN AppendUnder(before, -clause[1], clause[2]) ELSE before

\* CNFTransformer.to_implication_graph
to_implication_graph(cls) == ImplicationsFrom(cls, 1, <<>>)

InitTransform ==
  /\ clauses \in FormulasUpTo(MaxLits) \cup {PURE_LITERAL_CLAUSES, BACKBONE_CLAUSES}
                  \cup {inp.clauses : inp \in ALL_TEST_CASES}
  /\ num_variables = get_variable_count(clauses)
  /\ solver = "transform"
  /\ stack = <<>>
  /\ ret = Pending
  /\ stats = <<>>
  /\ out = Pending
  /\ probe = <<>>
  /\ earlier = <<>>

ToAdjacencyList ==
  /\ solver = "transform" /\ out.tag = "Pending"
  /\ out' = [tag |-> "Adjacency", adjacency |-> to_adjacency_list(clauses)]
  /\ UNCHANGED <<clauses, num_variables, probe, earlier, solver, stack, ret, stats>>

ToMatrixRepresentation ==
  /\ solver = "transform" /\ out.tag = "Pending"
  /\ out' = [tag |-> "Matrix", result |-> to_matrix_representation(clauses)]
  /\ UNCHANGED <<clauses, num_variables, probe, earlier, solver, stack, ret, stats>>

GetPureLiterals ==
  /\ solver = "transform" /\ out.tag = "Pending"
  /\ out' = [tag |-> "PureLiterals", pure_literals |-> get_pure_literals(clauses)]
  /\ UNCHANGED <<clauses, num_variables, probe, earlier, solver, stack, ret, stats>>

ExtractBackbone ==
  /\ solver = "transform" /\ out.tag = "Pending"
  /\ out' = [tag |-> "Backbone", backbone |-> extract_backbone(clauses)]
  /\ UNCHANGED <<clauses, num_variables, probe, earlier, solver, stack, ret, stats>>

ToImplicationGraph ==
  /\ solver = "transform" /\ out.tag = "Pending"
  /\ out' = [tag |-> "Implications", implications |-> to_implication_graph(clauses)]
  /\ UNCHANGED <<clauses, num_variables, probe, earlier, solver, stack, ret, stats>>

NextTransform ==
  \/ ToAdjacencyList
  \/ ToMatrixRepresentation
  \/ GetPureLiterals
  \/ ExtractBackbone
  \/ ToImplicationGraph

SpecTransform == InitTransform /\ [][NextTransform]_vars

(***************************************************************************)
(* Properties.                                                             *)
(***************************************************************************)
Variables(cls) == UNION {{Abs(cls[k][j]) : j \in DOMAIN cls[k]} : k \in DOMAIN cls}

\* some literal of the clause is assigned and true
ClauseHolds(clause, a) ==
  \E j \in DOMAIN clause :
    /\ Abs(clause[j]) \in DOMAIN a
    /\ \/ clause[j] > 0 /\ a[Abs(clause[j])] = TRUE
       \/ clause[j] < 0 /\ a[Abs(clause[j])] = FALSE

\* exhaustive truth-table enumeration over the variables that occur
Satisfiable(cls) ==
  \E a \in [Variables(cls) -> BOOLEAN] : \A k \in DOMAIN cls : ClauseHolds(cls[k], a)

\* every literal names a variable of 1..num_variables
InRange == Variables(clauses) \subseteq 1..num_variables

Returned(s) == solver = s /\ out.tag = "Returned"

\* C1: whenever SimpleDPLLSolver.solve returns is_satisfiable = True, the assignment
\* returned alongside satisfies every clause of the formula under the oracle
C1_DpllSoundness ==
  (Returned("dpll") /\ out.value.val[1]) =>
    \A k \in DOMAIN clauses : is_clause_satisfied(clauses[k], out.value.val[2].val)

\* C2 as stated: for every formula, also one naming a variable above num_variables, a
\* non-None completed assignment of solve_3sat_backward satisfies every clause
C2_BackwardSoundnessAnyFormula ==
  (Returned("backward") /\ out.value.val[1].tag = "Some") =>
    \A k \in DOMAIN clauses : is_clause_satisfied(clauses[k], out.value.val[1].val)

\* C2 amended: for every formula whose literals all name variables of 1..num_variables,
\* a non-None completed assignment of solve_3sat_backward satisfies every clause
C2_BackwardSoundnessInRange ==
  (Returned("backward") /\ out.value.val[1].tag = "Some" /\ InRange) =>
    \A k \in DOMAIN clauses : is_clause_satisfied(clauses[k], out.value.val[1].val)

C2_Witness ==
  /\ Returned("backward") /\ out.value.val[1].tag = "Some" /\ InRange
  /\ Len(clauses) >= 2 /\ stats.branch_choices_count >= 2
  /\ \A k \in DOMAIN clauses : ClauseHolds(clauses[k], out.value.val[1].val)

\* C3: solve_3sat_goal_oriented returns a pair (assignment_or_none, statistics) whose
\* assignment is None exactly when the formula is unsatisfiable
C3_GoalResultContract ==
  Returned("goal") =>
    /\ out.value.tag = "Some"
    /\ Len(out.value.val) = 2
    /\ out.value.val[1].tag = "None" <=> ~Satisfiable(clauses)

\* C4: the is_satisfiable verdict of SimpleDPLLSolver.solve is True exactly when some
\* total truth assignment satisfies every clause
C4_DpllCompleteness ==
  Returned("dpll") => (out.value.val[1] <=> Satisfiable(clauses))

C4_Witness ==
  /\ Returned("dpll") /\ ~out.value.val[1] /\ ~Satisfiable(clauses)
  /\ stats.unit_propagations >= 1 /\ stats.backtracks >= 1

\* C5: on a formula whose variables lie in 1..num_variables, solve_3sat_backward returns
\* a non-None assignment exactly when truth-table enumeration finds a satisfying one
C5_BackwardCompleteness ==
  (Returned("backward") /\ InRange) =>
    (out.value.val[1].tag = "Some" <=> Satisfiable(clauses))

C5_Witness ==
  /\ Returned("backward") /\ InRange /\ Satisfiable(clauses)
  /\ out.value.val[1].tag = "Some" /\ stats.backtracks >= 1

\* the forced choices made during the solve outnumber those kept in the solution
ForcedChoiceFailed ==
  stats.heuristic_choices_count >
    Cardinality({v \in DOMAIN out.assignment_types :
                   out.assignment_types[v] = "Heuristic Set"})

\* C6: on a formula whose variables lie in 1..num_variables, the status of
\* solve_3sat_goal_oriented is SATISFIABLE exactly when truth-table enumeration finds a
\* satisfying assignment, and the 8 sign combinations over 3 variables are UNSATISFIABLE
C6_GoalCompleteness ==
  (Returned("goal") /\ InRange) =>
    /\ out.status = "SATISFIABLE" <=> Satisfiable(clauses)
    /\ clauses = TEST_CASE_SMALL_UNSAT.clauses => out.status = "UNSATISFIABLE"

C6_Witness ==
  /\ Returned("goal") /\ InRange /\ Satisfiable(clauses)
  /\ out.status = "SATISFIABLE" /\ ForcedChoiceFailed

\* C7: when the backward or the goal-oriented solver reaches SATISFIABLE, the key set of
\* the completed assignment is exactly 1..num_variables
C7_CompleteKeySet ==
  ((Returned("backward") \/ Returned("goal")) /\ out.status = "SATISFIABLE") =>
    DOMAIN out.assignment.val = 1..num_variables

\* C8: is_clause_satisfied is true exactly when some literal of the clause has its
\* variable assigned and evaluates true; a clause with no assigned literal is unsatisfied
C8_OracleMeaning ==
  out.tag = "Clause" =>
    /\ out.is_clause_satisfied <=> ClauseHolds(out.clause, probe)
    /\ (\A j \in DOMAIN out.clause : Abs(out.clause[j]) \notin DOMAIN probe)
         => ~out.is_clause_satisfied

C8_Witness ==
  /\ out.tag = "Clause" /\ Len(out.clause) >= 2
  /\ Abs(out.clause[1]) \notin DOMAIN probe
  /\ Abs(out.clause[2]) \in DOMAIN probe
  /\ out.is_clause_satisfied

\* C9: _is_satisfied answers as is_clause_satisfied on every clause and partial
\* assignment, and _has_conflict answers as _check_for_contradiction on every clause list
C9_OracleAgreement ==
  /\ out.tag = "Clause" => out.is_satisfied = out.is_clause_satisfied
  /\ out.tag = "ClauseList" => out.has_conflict = out.check_for_contradiction

C9_Witness ==
  /\ out.tag = "ClauseList" /\ Len(clauses) >= 2 /\ out.has_conflict
  /\ \E j \in DOMAIN clauses[1] : Abs(clauses[1][j]) \notin DOMAIN probe

\* C10: _is_clause_contradiction is true exactly when every literal's variable is assigned
\* and every literal is false; never with an unassigned literal; never with is_clause_satisfied
C10_ContradictionMeaning ==
  out.tag = "Clause" =>
    /\ out.is_clause_contradiction <=>
         \A j \in DOMAIN out.clause :
           /\ Abs(out.clause[j]) \in DOMAIN probe
           /\ probe[Abs(out.clause[j])] = (out.clause[j] < 0)
    /\ (\E j \in DOMAIN out.clause : Abs(out.clause[j]) \notin DOMAIN probe)
         => ~out.is_clause_contradiction
    /\ ~(out.is_clause_satisfied /\ out.is_clause_contradiction)

C10_Witness ==
  /\ out.tag = "Clause" /\ Len(out.clause) >= 2
  /\ out.is_clause_contradiction
  /\ out.clause[1] # out.clause[2]

\* the call that has just returned was made before with the same solver and formula
SameCall(k) ==
  /\ earlier[k].solver = solver
  /\ earlier[k].clauses = clauses
  /\ earlier[k].num_variables = num_variables

\* C11: two calls of the same solver on the same formula end with the same status, the
\* same assignment and the same statistics counters, whatever was solved in between
C11_Determinism ==
  out.tag = "Returned" =>
    \A k \in DOMAIN earlier :
      SameCall(k) =>
        /\ earlier[k].status = out.status
        /\ earlier[k].assignment = out.assignment
        /\ earlier[k].statistics = stats

C11_Witness ==
  /\ out.tag = "Returned" /\ Len(earlier) = 2
  /\ SameCall(1)
  /\ earlier[2].solver # solver /\ earlier[2].clauses # clauses
  /\ solver = "goal" /\ out.status = "SATISFIABLE"
  /\ stats.heuristic_choices_count >= 1 /\ stats.defaulted_variables # <<>>

\* C16: on one SimpleDPLLSolver instance every solve starts its counters at zero, so the
\* statistics a call returns are those of the first call made for that formula, and no
\* step of a later call changes the statistics record an earlier call returned
C16_StatisticsResetPerSolve ==
  [][/\ \A k \in DOMAIN earlier :
          k \in DOMAIN earlier' /\ earlier'[k].statistics = earlier[k].statistics
     /\ (solver' = "dpll" /\ out'.tag = "Returned") =>
          \A k \in DOMAIN earlier' :
            (earlier'[k].solver = "dpll" /\ earlier'[k].clauses = clauses')
              => earlier'[k].statistics = stats']_vars

C16_Witness ==
  /\ Returned("dpll") /\ Len(earlier) = 2
  /\ earlier[1].solver = "dpll" /\ earlier[1].clauses = clauses
  /\ earlier[2].solver = "dpll" /\ earlier[2].clauses # clauses
  /\ earlier[2].statistics # stats
  /\ stats.decisions >= 1 /\ stats.backtracks >= 1

\* C12: no step of a solve of any of the three solvers changes the clause list or a
\* clause in it: the list a solve ends with, satisfiable or not, is the list it was given
C12_InputUnchanged == [][clauses' = clauses]_vars

C12_Witness ==
  /\ Returned("backward") /\ out.status = "UNSATISFIABLE"
  /\ Len(clauses) >= 2 /\ stats.backtracks >= 2

\* a frame of the DPLL search that waits for one of its two branches to return
DpllWaiting(i) == i < Len(stack) /\ stack[i].pc \in {"true", "false"}

\* C13: a branch that is being tried, or has failed, leaves no trace in the assignment of
\* the frame that tried it.  DPLL: the true branch starts from the frame's assignment plus
\* the branch variable, the frame's assignment stays as it is while a branch runs and
\* when it returns, the false branch starts from it with only the branch variable set to
\* false, and after both fail the frame ends with it less the branch variable.  Backward
\* and goal-oriented: no step changes the current_assignments of a frame that stays
C13_SiblingIsolation ==
  [][/\ solver = "dpll" =>
          /\ \A i \in DOMAIN stack :
               (DpllWaiting(i) /\ i <= Len(stack'))
                 => stack'[i].assignment = stack[i].assignment
          /\ (stack # <<>> /\ Top.pc = "check" /\ Len(stack') > Len(stack)
                 /\ stack'[Len(stack)].pc = "true") =>
               LET var == stack'[Len(stack)].var
               IN /\ var \notin DOMAIN Top.assignment
                  /\ stack'[Len(stack)].assignment = Put(Top.assignment, var, TRUE)
                  /\ stack'[Len(stack')].assignment = Put(Top.assignment, var, TRUE)
          /\ (stack # <<>> /\ Top.pc = "true" /\ Len(stack') > Len(stack)) =>
               stack'[Len(stack')].assignment = Put(Top.assignment, Top.var, FALSE)
          /\ (stack # <<>> /\ Top.pc = "false" /\ ret = Some(FALSE)) =>
               /\ Top.assignment = Put(Top.assignment, Top.var, FALSE)
               /\ (Len(stack) > 1 /\ Top.shares) =>
                    stack'[Len(stack')].assignment = Del(Top.assignment, Top.var)
               /\ Len(stack) = 1 => out'.assignment = Del(Top.assignment, Top.var)
     /\ solver \in {"backward", "goal"} =>
          \A i \in DOMAIN stack :
            i <= Len(stack') => stack'[i].current_assignments = stack[i].current_assignments]_vars

C13_Witness ==
  /\ solver = "dpll" /\ Len(stack) >= 2
  /\ Top.pc = "false" /\ ret = Some(FALSE)
  /\ Cardinality(DOMAIN Top.assignment) >= 2

\* every literal of the clause is assigned and false
FullyFalse(clause, a) ==
  \A j \in DOMAIN clause :
    Abs(clause[j]) \in DOMAIN a /\ a[Abs(clause[j])] = (clause[j] < 0)

Contradicted(a) == \E k \in DOMAIN clauses : FullyFalse(clauses[k], a)

\* a backward frame under whose assignment a clause is fully false returns: it returns
\* None and the step counts a backtrack
BackwardContradictionCounted ==
  (solver = "backward" /\ stack # <<>> /\ Contradicted(Top.current_assignments)
     /\ Len(stack') < Len(stack))
    => (ret' = None /\ stats'.backtracks = stats.backtracks + 1)

\* the goal-oriented branch step meets a literal whose value makes a clause fully false:
\* it makes no call for it and counts a backtrack
GoalContradictionCounted ==
  (solver = "goal" /\ stack # <<>> /\ Top.pc = "branch"
     /\ Top.i <= Len(clauses[Top.unsatisfied_clause_indices[1]])
     /\ LET literal == clauses[Top.unsatisfied_clause_indices[1]][Top.i]
        IN /\ Abs(literal) \notin DOMAIN Top.current_assignments
           /\ Contradicted(Put(Top.current_assignments, Abs(literal), literal > 0)))
    => (Len(stack') = Len(stack)
        /\ stats'.backtracks_on_branch = stats.backtracks_on_branch + 1)

\* C14 as stated: a contradiction shows in the backtrack counter of the solve, 'backtracks'
\* for DPLL and backward and 'backtracks_on_branch' for goal-oriented, so that a DPLL
\* solve that met a contradiction ends with backtracks of at least 1
C14_ContradictionInBacktracks ==
  [][/\ (solver' = "dpll" /\ out'.tag = "Returned" /\ stats'.conflicts >= 1)
          => stats'.backtracks >= 1
     /\ BackwardContradictionCounted
     /\ GoalContradictionCounted]_vars

\* C14 amended: a contradiction shows in a counter of the solve, 'conflicts' for DPLL,
\* 'backtracks' for backward and 'backtracks_on_branch' for goal-oriented: the step that
\* fails on a fully false clause increments it, and no step of the solve lowers it
C14_ContradictionCounted ==
  [][/\ (solver = "dpll" /\ stack # <<>> /\ Top.pc = "check" /\ Contradicted(Top.assignment))
          => (ret' = Some(FALSE) /\ Len(stack') < Len(stack)
              /\ stats'.conflicts = stats.conflicts + 1)
     /\ (solver = "dpll" /\ solver' = "dpll") => stats'.conflicts >= stats.conflicts
     /\ BackwardContradictionCounted
     /\ (solver = "backward" /\ solver' = "backward") => stats'.backtracks >= stats.backtracks
     /\ GoalContradictionCounted
     /\ (solver = "goal" /\ solver' = "goal")
          => stats'.backtracks_on_branch >= stats.backtracks_on_branch]_vars

C14_Witness ==
  /\ Returned("dpll") /\ out.status = "UNSATISFIABLE"
  /\ stats.conflicts >= 1 /\ stats.backtracks = 0 /\ stats.unit_propagations >= 1

\* the assignment the search of the solve handed back to the top-level function
SearchResult == IF solver = "goal" THEN ret.val.solution ELSE ret.val

\* C15: when the backward or the goal-oriented solver reaches SATISFIABLE,
\* defaulted_variables lists in increasing order, each once, exactly the variables of
\* 1..num_variables the search never assigned; each of them is False in the completed
\* assignment and every other variable of 1..num_variables keeps the search's value
C15_DefaultsRecorded ==
  ((Returned("backward") \/ Returned("goal")) /\ out.status = "SATISFIABLE") =>
    LET defaulted == stats.defaulted_variables
        complete == out.assignment.val
    IN /\ \A j \in 1..(Len(defaulted) - 1) : defaulted[j] < defaulted[j + 1]
       /\ {defaulted[j] : j \in DOMAIN defaulted} = (1..num_variables) \ DOMAIN SearchResult
       /\ \A v \in 1..num_variables :
            /\ v \in DOMAIN complete
            /\ complete[v] = IF v \in DOMAIN SearchResult THEN SearchResult[v] ELSE FALSE

C15_Witness ==
  /\ Returned("goal") /\ out.status = "SATISFIABLE"
  /\ Len(stats.defaulted_variables) >= 2
  /\ \E v \in DOMAIN SearchResult : v <= num_variables /\ SearchResult[v]

\* the signed literals that occur in the clause list
Literals(cls) == UNION {{cls[k][j] : j \in DOMAIN cls[k]} : k \in DOMAIN cls}

\* the 0-based column the matrix encoding gives a literal
Column(literal, max_var) ==
  IF literal > 0 THEN literal - 1 ELSE max_var + Abs(literal) - 1

\* C17: for every formula, also one whose variable ids are not dense,
\* to_matrix_representation returns one row per clause, each a 0/1 vector of
\* 2 x actual_variable_count columns in which the column of a literal is 1 exactly when
\* the literal occurs in the clause; no two literals share a column, no index is outside
C17_MatrixEncoding ==
  out.tag = "Matrix" =>
    LET max_var == get_variable_count(clauses)
    IN /\ out.result.tag = "Returned"
       /\ out.result.rows = Len(clauses) /\ out.result.cols = 2 * max_var
       /\ Len(out.result.matrix) = Len(clauses)
       /\ \A l \in Literals(clauses) : Column(l, max_var) \in 0..(2 * max_var - 1)
       /\ \A l, m \in Literals(clauses) : l # m => Column(l, max_var) # Column(m, max_var)
       /\ \A k \in DOMAIN clauses :
            LET row == out.result.matrix[k]
            IN /\ DOMAIN row = 0..(2 * max_var - 1)
               /\ \A c \in DOMAIN row : row[c] \in {0, 1}
               /\ \A v \in Variables(clauses) :
                    /\ row[v - 1] = 1 <=> \E j \in DOMAIN clauses[k] : clauses[k][j] = v
                    /\ row[max_var + v - 1] = 1 <=> \E j \in DOMAIN clauses[k] : clauses[k][j] = -v

\* u and v are different variables of one clause
CoOccur(u, v) ==
  u # v /\ \E k \in DOMAIN clauses :
             /\ \E j \in DOMAIN clauses[k] : Abs(clauses[k][j]) = u
             /\ \E j \in DOMAIN clauses[k] : Abs(clauses[k][j]) = v

\* C18 as stated: a variable is a key of the map of to_adjacency_list only if it co-occurs
\* with a different variable in some clause; a variable that only occurs alone is absent
C18_KeysCoOccur ==
  out.tag = "Adjacency" =>
    \A v \in DOMAIN out.adjacency : \E u \in Variables(clauses) : CoOccur(u, v)

\* C18 amended: a variable is a key of the map exactly when it occurs in some clause; a
\* variable that only occurs alone is a key with an empty neighbour set
C18_KeysOccur ==
  out.tag = "Adjacency" =>
    /\ DOMAIN out.adjacency = Variables(clauses)
    /\ \A v \in Variables(clauses) :
         (~\E u \in Variables(clauses) : CoOccur(u, v)) <=> out.adjacency[v] = {}

C18_Witness ==
  /\ out.tag = "Adjacency" /\ Len(clauses) >= 2
  /\ \E v \in DOMAIN out.adjacency :
       /\ out.adjacency[v] = {}
       /\ \E k \in DOMAIN clauses : clauses[k] = <<v, -v>>

\* C19: u is in adjacency[v] exactly when u differs from v and some clause holds a literal
\* of each, in any polarity; the relation is symmetric and no variable neighbours itself
C19_AdjacencyRelation ==
  out.tag = "Adjacency" =>
    LET Adjacent(u, v) == v \in DOMAIN out.adjacency /\ u \in out.adjacency[v]
    IN \A u, v \in Variables(clauses) \cup DOMAIN out.adjacency :
         /\ Adjacent(u, v) <=> CoOccur(u, v)
         /\ Adjacent(u, v) <=> Adjacent(v, u)
         /\ ~Adjacent(v, v)

C19_Witness ==
  /\ out.tag = "Adjacency" /\ Len(clauses) >= 2
  /\ \E k \in DOMAIN clauses : \E i, j \in DOMAIN clauses[k] :
       /\ clauses[k][i] > 0 /\ clauses[k][j] < 0
       /\ Abs(clauses[k][j]) \in out.adjacency[clauses[k][i]]
  /\ \E k \in DOMAIN clauses : Len(clauses[k]) = 1

\* C20: get_pure_literals returns exactly the signed literals l that occur in some clause
\* while -l occurs in none; on [[1,2],[1,-2],[3,4]] that is {1,3,4}
C20_PureLiterals ==
  out.tag = "PureLiterals" =>
    /\ out.pure_literals = {l \in Literals(clauses) : -l \notin Literals(clauses)}
    /\ clauses = PURE_LITERAL_CLAUSES => out.pure_literals = {1, 3, 4}

C20_Witness ==
  /\ out.tag = "PureLiterals"
  /\ \E l \in out.pure_literals : l < 0
  /\ \E l \in Literals(clauses) : -l \in Literals(clauses)

\* C21: extract_backbone returns exactly the literals that are the only literal of some
\* clause of length one, both signs of a variable when both are unit clauses; a clause of
\* another length adds nothing; [[5],[-5],[1,2]] gives {5,-5}
C21_Backbone ==
  out.tag = "Backbone" =>
    /\ \A l \in out.backbone \cup Literals(clauses) :
         l \in out.backbone <=> \E k \in DOMAIN clauses : clauses[k] = <<l>>
    /\ clauses = BACKBONE_CLAUSES => out.backbone = {5, -5}

C21_Witness ==
  /\ out.tag = "Backbone"
  /\ \E l \in out.backbone : l < 0 /\ -l \in out.backbone
  /\ \E l \in Literals(clauses) : l \notin out.backbone /\ -l \notin out.backbone

\* how often literal b is listed under literal a
Listed(implications, a, b) ==
  IF a \in DOMAIN implications
  THEN Cardinality({i \in DOMAIN implications[a] : implications[a][i] = b})
  ELSE 0

Assigned(frame) ==
  DOMAIN (IF solver = "dpll" THEN frame.assignment ELSE frame.current_assignments)

\* the variables a frame's assignment held before the frame picked its decision variable
Held(frame) ==
  IF solver = "dpll" /\ frame.pc \in {"true", "false"}
  THEN Assigned(frame) \ {frame.var}
  ELSE Assigned(frame)

\* a step that makes a recursive call
Calls == stack # <<>> /\ Len(stack') = Len(stack) + 1

\* a step of the frame on top that neither calls nor returns
Stays == stack # <<>> /\ Len(stack') = Len(stack)

\* a round of the DPLL unit propagation loop that found a unit clause
Propagates ==
  /\ solver = "dpll" /\ Stays /\ Top.pc = "unit"
  /\ stats'.unit_propagations = stats.unit_propagations + 1

\* a recursive call is made with an assignment that has a variable more than the calling
\* frame held, a frame never loses a variable it held, and a round of the DPLL unit
\* propagation loop assigns a variable that was unassigned
Progresses ==
  /\ Calls =>
       /\ Held(Top) \subseteq Assigned(stack'[Len(stack')])
       /\ Held(Top) # Assigned(stack'[Len(stack')])
       /\ Held(Top) \subseteq Held(stack'[Len(stack)])
  /\ Stays => Held(Top) \subseteq Held(stack'[Len(stack')])
  /\ Propagates =>
       \E v \in Variables(clauses) \ Assigned(Top) :
         Assigned(stack'[Len(stack')]) = Assigned(Top) \cup {v}

\* C23: every solve of each of the three solvers returns, because every recursive call is
\* made with an assignment that has at least one variable more than the calling frame had
\* on entry, and every round of the DPLL unit propagation loop assigns a variable that
\* was unassigned
C23_Termination == <>(out.tag = "Returned") /\ [][Progresses]_vars

C23_Witness ==
  /\ Returned("dpll") /\ stats.unit_propagations >= 1 /\ stats.backtracks >= 1

\* C24: the number of calls active at once never exceeds the number of variables of the
\* formula plus one (nor the declared count plus one when it covers the formula), because
\* the call at depth d below the top holds at least d assigned variables of the formula
C24_DepthBound ==
  /\ Len(stack) <= Cardinality(Variables(clauses)) + 1
  /\ InRange => Len(stack) <= num_variables + 1
  /\ \A d \in DOMAIN stack :
       /\ Cardinality(Assigned(stack[d])) >= d - 1
       /\ Assigned(stack[d]) \subseteq Variables(clauses)

C24_Witness ==
  /\ Cardinality(Variables(clauses)) >= 2
  /\ Len(stack) = Cardinality(Variables(clauses)) + 1
  /\ Cardinality(Assigned(Top)) = Len(stack) - 1

\* the forced choice the heuristic makes for variable v in a goal-oriented frame
ForcedFor(frame, v) ==
  LET t == _evaluate_variable_assignment(v, TRUE, frame.current_assignments, clauses,
             frame.unsatisfied_clause_indices)
      f == _evaluate_variable_assignment(v, FALSE, frame.current_assignments, clauses,
             frame.unsatisfied_clause_indices)
  IN _make_heuristic_decision(v, t.causes_contradiction, f.causes_contradiction,
       t.newly_satisfied_count, f.newly_satisfied_count, heuristic_factor)

\* the scan of the frame on top is at an unassigned variable that yields a forced choice
YieldsForced ==
  /\ solver = "goal" /\ stack # <<>> /\ Top.pc = "scan"
  /\ Top.variable <= num_variables
  /\ Top.variable \notin DOMAIN Top.current_assignments
  /\ ForcedFor(Top, Top.variable).tag = "Some"

\* the call made for the forced choice of the frame on top has returned
ForcedCallBack == solver = "goal" /\ stack # <<>> /\ Top.pc = "forced" /\ ret.tag # "Pending"

ForcedStep ==
  /\ YieldsForced =>
       /\ Len(stack') = Len(stack) + 1
       /\ stack'[Len(stack)] = [Top EXCEPT !.pc = "forced"]
       /\ stack'[Len(stack')].current_assignments =
            Put(Top.current_assignments, Top.variable, ForcedFor(Top, Top.variable).val)
  /\ (ForcedCallBack /\ ret.tag = "Some") => stack' = Caller /\ ret' = ret
  /\ (ForcedCallBack /\ ret.tag = "None") =>
       stack' = SetTop([Top EXCEPT !.pc = "scan", !.variable = Top.variable + 1])
  /\ (solver = "goal" /\ Stays) => stack'[Len(stack')].variable >= Top.variable
  /\ (solver = "goal" /\ Stays /\ Top.pc = "scan" /\ stack'[Len(stack')].pc = "branch") =>
       Top.variable > num_variables

NewlySatisfied(frame, v, b) ==
  Cardinality({k \in DOMAIN clauses :
    /\ ~ClauseHolds(clauses[k], frame.current_assignments)
    /\ ClauseHolds(clauses[k], Put(frame.current_assignments, v, b))})

\* setting v to b on top of the frame's assignment leaves some clause with every literal
\* assigned and false
Contradicts(frame, v, b) == Contradicted(Put(frame.current_assignments, v, b))

\* the variables of 1..num_variables the frame has not assigned
Unassigned(frame) == (1..num_variables) \ DOMAIN frame.current_assignments

\* C26: for an unassigned variable of a goal-oriented frame, the heuristic forces True when
\* only False contradicts a clause, False when only True does, nothing when both do, and
\* when neither does the polarity whose newly satisfied count exceeds the other's by more
\* than 1, nothing when the counts differ by 1 or 0
C26_ForcedChoiceRule ==
  solver = "goal" =>
    \A d \in DOMAIN stack : \A v \in Unassigned(stack[d]) :
      LET forced == ForcedFor(stack[d], v)
          tc == Contradicts(stack[d], v, TRUE)
          fc == Contradicts(stack[d], v, FALSE)
          ts == NewlySatisfied(stack[d], v, TRUE)
          fs == NewlySatisfied(stack[d], v, FALSE)
      IN /\ (~tc /\ fc) => forced = Some(TRUE)
         /\ (tc /\ ~fc) => forced = Some(FALSE)
         /\ (tc /\ fc) => forced = None
         /\ (~tc /\ ~fc /\ ts > fs + 1) => forced = Some(TRUE)
         /\ (~tc /\ ~fc /\ fs > ts + 1) => forced = Some(FALSE)
         /\ (~tc /\ ~fc /\ ts <= fs + 1 /\ fs <= ts + 1) => forced = None

C26_Witness ==
  /\ solver = "goal" /\ stack # <<>> /\ Top.pc = "forced"
  /\ ~Contradicts(Top, Top.variable, TRUE) /\ ~Contradicts(Top, Top.variable, FALSE)
  /\ NewlySatisfied(Top, Top.variable, TRUE) > NewlySatisfied(Top, Top.variable, FALSE) + 1

\* the places <<k, j>> where variable v occurs in a clause that assignment a leaves
\* unsatisfied
Occurrences(v, a) ==
  {p \in UNION {{<<k, j>> : j \in DOMAIN clauses[k]} : k \in DOMAIN clauses} :
     /\ ~ClauseHolds(clauses[p[1]], a)
     /\ Abs(clauses[p[1]][p[2]]) = v}

\* place p comes before place q when the clauses and their literals are scanned in order
Before(p, q) == p[1] < q[1] \/ (p[1] = q[1] /\ p[2] < q[2])

\* v is met before w in that scan
MetFirst(v, w, a) ==
  \E p \in Occurrences(v, a) : \A q \in Occurrences(w, a) : Before(p, q)

\* v is what the branching rule picks under assignment a
BranchingChoice(v, a) ==
  /\ v \notin DOMAIN a
  /\ Occurrences(v, a) # {}
  /\ \A w \in Variables(clauses) \ DOMAIN a :
       /\ Cardinality(Occurrences(w, a)) <= Cardinality(Occurrences(v, a))
       /\ (w # v /\ Cardinality(Occurrences(w, a)) = Cardinality(Occurrences(v, a)))
            => MetFirst(v, w, a)

\* the DPLL frame on top starts the branch of its decision variable with value b
StartsBranch(b) ==
  /\ solver = "dpll" /\ Calls
  /\ stack'[Len(stack)].pc = (IF b THEN "true" ELSE "false")

\* what a DPLL decision step and the step after a failed true branch do
BranchingStep ==
  /\ StartsBranch(TRUE) =>
       /\ Top.pc = "check"
       /\ BranchingChoice(stack'[Len(stack)].var, Top.assignment)
       /\ stack'[Len(stack')].assignment =
            Put(Top.assignment, stack'[Len(stack)].var, TRUE)
  /\ StartsBranch(FALSE) =>
       /\ Top.pc = "true" /\ ret = Some(FALSE)
       /\ stack'[Len(stack)].var = Top.var
       /\ stack'[Len(stack')].assignment = Put(Top.assignment, Top.var, FALSE)

\* C27: the variable DPLL branches on is unassigned and occurs most often in the clauses
\* not yet satisfied, the one met first in the scan of clauses and literals among equals;
\* the value true is tried first, false only after the true branch has failed
C27_BranchingRule == [][BranchingStep]_vars

C27_Witness ==
  /\ solver = "dpll"
  /\ \E d \in DOMAIN stack :
       /\ stack[d].pc = "false"
       /\ LET a == Del(stack[d].assignment, stack[d].var)
          IN \E w \in Variables(clauses) \ DOMAIN a :
               /\ w # stack[d].var
               /\ Cardinality(Occurrences(w, a)) = Cardinality(Occurrences(stack[d].var, a))

\* the places of clause k whose variable assignment a leaves unassigned
OpenPlaces(k, a) == {j \in DOMAIN clauses[k] : Abs(clauses[k][j]) \notin DOMAIN a}

\* clause k is not satisfied by a and has exactly one unassigned literal
IsUnit(k, a) == ~ClauseHolds(clauses[k], a) /\ Cardinality(OpenPlaces(k, a)) = 1

\* the frame on top is in the DPLL unit propagation loop
InUnitLoop == solver = "dpll" /\ stack # <<>> /\ Top.pc = "unit"

\* what one round of the unit propagation loop does
UnitStep ==
  InUnitLoop =>
    /\ Stays => \A v \in Assigned(Top) :
                  stack'[Len(stack')].assignment[v] = Top.assignment[v]
    /\ Propagates =>
         \E k \in DOMAIN clauses :
           /\ IsUnit(k, Top.assignment)
           /\ \E j \in OpenPlaces(k, Top.assignment) :
                stack'[Len(stack')].assignment =
                  Put(Top.assignment, Abs(clauses[k][j]), clauses[k][j] > 0)
    /\ (Stays /\ stack'[Len(stack')].pc = "check") =>
         /\ \A k \in DOMAIN clauses : ~IsUnit(k, Top.assignment)
         /\ stack'[Len(stack')].assignment = Top.assignment
    /\ Len(stack') < Len(stack) =>
         /\ ret' = Some(FALSE)
         /\ stats'.conflicts = stats.conflicts + 1
    /\ Propagates \/ Len(stack') < Len(stack) \/ (Stays /\ stack'[Len(stack')].pc = "check")

\* C28: the DPLL unit propagation loop never changes the value of an assigned variable (a
\* requirement against an assigned value would end the call with a conflict counted), each
\* round assigns the one unassigned literal of an unsatisfied clause so that it is true,
\* and the loop is left without conflict only when no unsatisfied clause has exactly one
\* unassigned literal
C28_UnitPropagation == [][UnitStep]_vars

C28_Witness ==
  /\ solver = "dpll" /\ stack # <<>> /\ Top.pc = "check"
  /\ stats.unit_propagations >= 1
  /\ \E k \in DOMAIN clauses :
       /\ ClauseHolds(clauses[k], Top.assignment)
       /\ Cardinality(OpenPlaces(k, Top.assignment)) = 1

\* the increasing list of the indices of the clauses that a leaves unsatisfied
UnsatisfiedBy(a) ==
  SelectSeq([k \in 1..Len(clauses) |-> k], LAMBDA k : ~ClauseHolds(clauses[k], a))

\* C29: in every call of _find_solution_recursive, unsatisfied_clause_indices is exactly the
\* increasing list of the indices of the clauses current_assignments does not satisfy;
\* so every assigned literal of the target clause is false, and a literal skipped as
\* already assigned is never one that is assigned consistently
C29_BackwardBookkeeping ==
  solver = "backward" =>
    \A d \in DOMAIN stack :
      LET frame == stack[d]
          a == frame.current_assignments
      IN /\ frame.unsatisfied_clause_indices = UnsatisfiedBy(a)
         /\ frame.unsatisfied_clause_indices # <<>> =>
              LET target_clause == clauses[frame.unsatisfied_clause_indices[1]]
              IN \A j \in DOMAIN target_clause :
                   Abs(target_clause[j]) \in DOMAIN a =>
                     a[Abs(target_clause[j])] # (target_clause[j] > 0)

C29_Witness ==
  /\ solver = "backward" /\ Len(stack) >= 2 /\ Top.pc = "loop"
  /\ Top.i <= Len(clauses[Top.unsatisfied_clause_indices[1]])
  /\ Abs(clauses[Top.unsatisfied_clause_indices[1]][Top.i]) \in DOMAIN Top.current_assignments
  /\ Len(Top.unsatisfied_clause_indices) < Len(clauses)

\* C30: when solve_3sat_backward ends UNSATISFIABLE, backtracks equals recursive_calls and
\* branch_choices_count is 0; when it ends SATISFIABLE, recursive_calls equals backtracks
\* plus branch_choices_count plus 1, and branch_choices_count is the number of variables
\* the search assigned in the solution it found
C30_BackwardCounters ==
  Returned("backward") =>
    IF out.status = "UNSATISFIABLE"
    THEN /\ ret = None
         /\ stats.backtracks = stats.recursive_calls
         /\ stats.branch_choices_count = 0
    ELSE /\ ret.tag = "Some"
         /\ stats.recursive_calls = stats.backtracks + stats.branch_choices_count + 1
         /\ stats.branch_choices_count = Cardinality(DOMAIN ret.val)

C30_Witness ==
  /\ Returned("backward") /\ out.status = "SATISFIABLE"
  /\ stats.backtracks >= 1 /\ stats.branch_choices_count >= 2

====
